---- MODULE Spec2Model ----
(***************************************************************************)
(* A model of tendril.utils.config: the external source chain, the         *)
(* precedence resolution of ConfigOption.raw_value, value masking, the     *)
(* ConfigManager's load_elements / render views and the dependency         *)
(* ordered module loading of ConfigManager._load_configs.                  *)
(***************************************************************************)
EXTENDS Integers, Sequences, FiniteSets, TLC

VARIABLES
    environment_overrides,  \* ConfigManager._environment_overrides
    local_config,           \* ConfigManager._local_config
    instance_config,        \* ConfigManager._instance_config
    external_configs,       \* ConfigManager._external_configs
    ns,                     \* attributes published on the manager by setattr
    docs,                   \* ConfigManager._docs
    res,                    \* outcome of the last property read / call
    discovery,              \* get_namespace_package_names(prefix), as a list
    depends,                \* module name -> its depends
    excluded,               \* ConfigManager._excluded
    modules,                \* _load_configs: modules
    idx,                    \* _load_configs: position of the for loop
    remaining_modules,      \* _load_configs: remaining_modules
    changed,                \* _load_configs: changed
    deadlocked,             \* _load_configs: deadlocked
    modules_loaded,         \* ConfigManager._modules_loaded
    errors,                 \* the logger.error records of _load_configs
    load_exc,               \* the exception _load_configs ended with, "" if none
    pc                      \* position inside _load_configs

mgrVars == <<environment_overrides, local_config, instance_config,
             external_configs, ns, docs>>
inputVars == <<discovery, depends, excluded>>
loaderVars == <<modules, idx, remaining_modules, changed, deadlocked,
                modules_loaded, errors, load_exc, pc>>
vars == <<mgrVars, res, inputVars, loaderVars>>

-----------------------------------------------------------------------------
(* Bounds of the model.                                                    *)

\* longest external source chain
MaxSources == 2
\* longest string handed to masked_value
MaxStrLen == 80
\* elements loaded over a manager's life (over all load_elements calls)
MaxElements == 2
\* largest depends set of a module
MaxDeps == 2
\* largest exclusion set
MaxExcluded == 1

-----------------------------------------------------------------------------
(* Python values.  A value is a record: t is its type, s the characters of *)
(* a str, n the number of an int, d the items of a dict.                   *)

EmptyDict == [k \in {} |-> 0]

NoneVal == [t |-> "NoneType", s |-> <<>>, n |-> 0, d |-> EmptyDict]
StrVal(chars) == [t |-> "str", s |-> chars, n |-> 0, d |-> EmptyDict]
IntVal(i) == [t |-> "int", s |-> <<>>, n |-> i, d |-> EmptyDict]
DictVal(items) == [t |-> "dict", s |-> <<>>, n |-> 0, d |-> items]

\* The result of a call: exc is "" when it returned `value`, else the name
\* of the exception raised with `args`; source is element.source afterwards.
Return(v, src) == [exc |-> "", value |-> v, source |-> src, args |-> <<>>]
Raise(e, args, src) == [exc |-> e, value |-> NoneVal, source |-> src, args |-> args]

\* a dict (or None) held in a manager attribute
NoneMap == [isNone |-> TRUE, m |-> EmptyDict]
DictOf(m) == [isNone |-> FALSE, m |-> m]

-----------------------------------------------------------------------------
(* External sources.                                                       *)

\* ExternalConfigKeyError and its subclasses
IsExternalConfigKeyError(e) ==
    e \in {"ExternalConfigKeyError", "ConfigSourceDoesNotProvideKey",
           "ConfigSourceDoesNotContainKey"}

\* str.split(':')
RECURSIVE Split(_)
Split(str) ==
    IF \A i \in 1..Len(str) : str[i] # ":"
    THEN <<str>>
    ELSE LET i == CHOOSE i \in 1..Len(str) :
                      str[i] = ":" /\ \A j \in 1..(i - 1) : str[j] # ":"
         IN  <<SubSeq(str, 1, i - 1)>> \o Split(SubSeq(str, i + 1, Len(str)))

\* rval.get(crumb): dict.get returns None for an absent key; any other type
\* has no attribute get
RvalGet(rval, crumb) ==
    IF rval.t = "dict"
    THEN Return(IF crumb \in DOMAIN rval.d THEN rval.d[crumb] ELSE NoneVal, "None")
    ELSE Raise("AttributeError", <<rval.t, "get">>, "None")

\* the for loop of ConfigExternalJSONSource._get; its except KeyError clause
\* never runs, nothing in the loop raises KeyError
RECURSIVE Walk(_, _)
Walk(rval, crumbs) ==
    IF crumbs = <<>>
    THEN Return(rval, "None")
    ELSE LET r == RvalGet(rval, Head(crumbs))
         IN  IF r.exc # "" THEN r ELSE Walk(r.value, Tail(crumbs))

JSONSource_get(src, key_path) == Walk(src.source, Split(key_path))

\* ConfigExternalSource.get
ConfigExternalSource_get(src, key) ==
    IF key \notin DOMAIN src.keymap
    THEN Raise("ConfigSourceDoesNotProvideKey", <<src.path, key>>, "None")
    ELSE JSONSource_get(src, src.keymap[key])

\* ConfigExternalSources.get, from the i-th source on
RECURSIVE SourcesGetFrom(_, _, _)
SourcesGetFrom(chain, key, i) ==
    IF i > Len(chain.sources)
    THEN Raise("ExternalConfigKeyError", <<chain.path, key>>, "None")
    ELSE LET r == ConfigExternalSource_get(chain.sources[i], key)
         IN  IF r.exc # "" /\ IsExternalConfigKeyError(r.exc)
             THEN SourcesGetFrom(chain, key, i + 1)
             ELSE r

ConfigExternalSources_get(chain, key) == SourcesGetFrom(chain, key, 1)

\* the outcome of constructing a chain: the sources built, or the exception
Built(sources) == [exc |-> "", args |-> <<>>, sources |-> sources]
Failed(e, args) == [exc |-> e, args |-> args, sources |-> <<>>]

\* ConfigExternalJSONSource(path, keymap): the source over the file's
\* document; _load_external_config needs the file to exist
JSONSource(entry) ==
    [path |-> entry.path, keymap |-> entry.keymap, source |-> entry.document]

\* the else branch of _load_external_sources: the error is built from
\* config['path'] and config['filetype'], a KeyError when the entry has no
\* 'filetype' key
FormatError(entry) ==
    IF entry.filetype = "absent" THEN Failed("KeyError", <<"filetype">>)
    ELSE Failed("ExternalConfigFormatError", <<entry.path, entry.filetype>>)

\* the for loop of ConfigExternalSources._load_external_sources from the
\* i-th entry on: ExternalConfigMissingError is caught and passed over
RECURSIVE LoadSourcesFrom(_, _, _)
LoadSourcesFrom(descriptor, i, sources) ==
    IF i > Len(descriptor) THEN Built(sources)
    ELSE IF descriptor[i].format # "json" THEN FormatError(descriptor[i])
    ELSE IF ~descriptor[i].exists THEN LoadSourcesFrom(descriptor, i + 1, sources)
    ELSE LoadSourcesFrom(descriptor, i + 1, Append(sources, JSONSource(descriptor[i])))

load_external_sources(descriptor) == LoadSourcesFrom(descriptor, 1, <<>>)

-----------------------------------------------------------------------------
(* Default expressions and ConfigOption.raw_value.                         *)

\* name + 1 on the value the name is bound to: int + int, or TypeError
PlusOne(v) ==
    IF v.t = "int" THEN Return(IntVal(v.n + 1), "None")
    ELSE Raise("TypeError", <<v.t, "+">>, "None")

\* eval(default, ctx) for the default expressions of the model: a literal,
\* the name of a published attribute, that name plus one, the empty text
\* (SyntaxError), or None in place of the text (eval refuses it: TypeError)
Eval(default, ctx) ==
    CASE default.k = "lit" -> Return(default.v, "None")
      [] default.k = "ref" ->
            IF default.name \in DOMAIN ctx.ns
            THEN Return(ctx.ns[default.name], "None")
            ELSE Raise("NameError", <<default.name>>, "None")
      [] default.k = "inc" ->
            IF default.name \in DOMAIN ctx.ns
            THEN PlusOne(ctx.ns[default.name])
            ELSE Raise("NameError", <<default.name>>, "None")
      [] default.k = "unset" -> Raise("TypeError", <<"eval">>, "None")
      [] OTHER -> Raise("SyntaxError", <<>>, "None")

\* a subscript that takes a map that is still None for an empty dict
SubscriptNoneAsEmpty(map, name) ==
    IF ~map.isNone /\ name \in DOMAIN map.m THEN Return(map.m[name], "None")
    ELSE Raise("KeyError", <<name>>, "None")

\* ctx[attr][name] of raw_value: KeyError when the dict lacks the name,
\* TypeError when the attribute is still None
Subscript(map, name) ==
    IF map.isNone THEN Raise("TypeError", <<"NoneType">>, "None")
    ELSE IF name \in DOMAIN map.m THEN Return(map.m[name], "None")
    ELSE Raise("KeyError", <<name>>, "None")

\* one try block of raw_value on the outcome r of its first statement:
\* self.source = tag and return, go on with `next` when the except clause
\* catches the exception, let any other exception through
TryStep(r, caught, tag, next) ==
    IF r.exc = "" THEN Return(r.value, tag)
    ELSE IF caught THEN next
    ELSE r

\* the last step of raw_value: the default expression; the except
\* SyntaxError clause prints and raises again
RawValueDefault(el, ctx) ==
    TryStep(Eval(el.default, ctx), FALSE, "default", NoneVal)

\* the external step of raw_value, then the default
ExternalStep(r, el, ctx) ==
    TryStep(r, IsExternalConfigKeyError(r.exc), "external_config",
            RawValueDefault(el, ctx))

RawValueExternal(el, ctx) ==
    IF ctx.ext.isNone
    THEN RawValueDefault(el, ctx)
    ELSE ExternalStep(ConfigExternalSources_get(ctx.ext, el.name), el, ctx)

\* one dict step of raw_value: return the dict's entry tagged `tag`, go on
\* with `next` on KeyError
DictStepOn(r, tag, next) == TryStep(r, r.exc = "KeyError", tag, next)
DictStep(map, name, tag, next) == DictStepOn(Subscript(map, name), tag, next)

RawValueInstanceFirst(el, ctx) ==
    DictStep(ctx.inst, el.name, "instance_config",
      DictStep(ctx.env, el.name, "environment_override",
        DictStep(ctx.local, el.name, "local_override",
          RawValueExternal(el, ctx))))

\* ConfigOption.raw_value
RawValue(el, ctx) ==
    DictStep(ctx.env, el.name, "environment_override",
      DictStep(ctx.local, el.name, "local_override",
        DictStep(ctx.inst, el.name, "instance_config",
          RawValueExternal(el, ctx))))

\* ConfigOption.value with no parser, ConfigConstant.value
Hardcoded(r) == [r EXCEPT !.source = "hardcoded"]

\* a constant resolved like an option
ValueOverridable(el, ctx) == RawValue(el, ctx)

Value(el, ctx) ==
    IF el.kind = "constant"
    THEN Hardcoded(Eval(el.default, ctx))
    ELSE RawValue(el, ctx)

-----------------------------------------------------------------------------
(* Masking and the rendered value of an element.                           *)

Min(a, b) == IF a < b THEN a ELSE b

\* value[:m] and value[-m:] of a str, for 0 <= m; value[-0:] is value[0:]
SliceTo(chars, m) == SubSeq(chars, 1, Min(m, Len(chars)))
SliceLast(chars, m) ==
    IF m = 0 \/ m >= Len(chars) THEN chars
    ELSE SubSeq(chars, Len(chars) - m + 1, Len(chars))

Ellipsis == <<".", ".", ".">>

\* the masking of ConfigElement.masked_value, applied to a computed value
Mask(value, masked) ==
    IF ~masked THEN value
    ELSE IF value.t # "str" THEN value
    ELSE LET v_len == Len(value.s)
             m_len == Min(v_len \div 8, 8)
         IN  StrVal(SliceTo(value.s, m_len) \o Ellipsis \o SliceLast(value.s, m_len))

\* ConfigElement.masked_value: reads self.value
MaskOutcome(r, masked) ==
    IF r.exc # "" THEN r ELSE Return(Mask(r.value, masked), r.source)

MaskedValue(el, ctx) == MaskOutcome(Value(el, ctx), el.masked)

\* is_jsonable, and str() of a value json.dumps refuses
IsJsonable(value) == value.t \in {"NoneType", "str", "int", "dict"}
PyStr(value) == StrVal(<<"<", value.t, ">">>)

\* ConfigElement.jsonable_value
JsonableOutcome(r) ==
    IF r.exc # "" THEN r
    ELSE IF IsJsonable(r.value) THEN r
    ELSE Return(PyStr(r.value), r.source)

JsonableValue(el, ctx) == JsonableOutcome(MaskedValue(el, ctx))

\* ConfigElement.doc_render: the documentation tuple, or the exception
DocTuple(el, r) ==
    [exc |-> r.exc, args |-> r.args,
     tuple |-> [oname |-> el.name, doc |-> el.doc, default |-> el.default,
                masked_value |-> r.value, source |-> r.source]]

ElementDocRender(el, ctx) == DocTuple(el, JsonableValue(el, ctx))

-----------------------------------------------------------------------------
(* ConfigManager: the evaluation context, load_elements, the render views. *)

\* element.ctx = self.__dict__
Ctx(env, local, inst, ext, names) ==
    [env |-> env, local |-> local, inst |-> inst, ext |-> ext, ns |-> names]

\* a setattr that keeps the value a name already has
SetAttrFirstWins(names, name, value) ==
    [k \in DOMAIN names \cup {name} |-> IF k \in DOMAIN names THEN names[k] ELSE value]

\* setattr(self, name, value)
SetAttr(names, name, value) ==
    [k \in DOMAIN names \cup {name} |-> IF k = name THEN value ELSE names[k]]

\* the for loop of load_elements from element i on: each element's value is
\* computed and published, then its documentation tuple is computed; an
\* exception leaves the loop with what was published so far
RECURSIVE LoadLoop(_, _, _, _)

Aborted(exc, args, i, ctx, doc_part) ==
    [exc |-> exc, args |-> args, at |-> i, ns |-> ctx.ns, doc_part |-> doc_part]

\* _doc_part.append(element.doc_render()), d the outcome of doc_render
Record(elements, i, ctx, doc_part, d) ==
    IF d.exc # "" THEN Aborted(d.exc, d.args, i, ctx, doc_part)
    ELSE LoadLoop(elements, i + 1, ctx, Append(doc_part, d.tuple))

Published(elements, i, ctx, doc_part) ==
    Record(elements, i, ctx, doc_part, ElementDocRender(elements[i], ctx))

\* a load_elements whose later elements do not see what it published
PublishUnseen(elements, i, ctx, doc_part, r) ==
    IF r.exc # "" THEN Aborted(r.exc, r.args, i, ctx, doc_part)
    ELSE Published(elements, i, ctx, doc_part)

\* setattr(self, element.name, element.value), r the outcome of element.value
Publish(elements, i, ctx, doc_part, r) ==
    IF r.exc # "" THEN Aborted(r.exc, r.args, i, ctx, doc_part)
    ELSE Published(elements, i,
                   [ctx EXCEPT !.ns = SetAttr(ctx.ns, elements[i].name, r.value)],
                   doc_part)

LoadLoop(elements, i, ctx, doc_part) ==
    IF i > Len(elements) THEN Aborted("", <<>>, 0, ctx, doc_part)
    ELSE Publish(elements, i, ctx, doc_part, Value(elements[i], ctx))

\* ConfigManager.load_elements: the namespace and _docs afterwards, and the
\* exception it ended with (exc = "" when it returned)
Appended(l, doc, alldocs) ==
    [exc |-> l.exc, args |-> l.args, at |-> l.at, ns |-> l.ns,
     docs |-> IF l.exc = "" THEN Append(alldocs, <<l.doc_part, doc>>)
              ELSE alldocs]

LoadElements(elements, doc, ctx, alldocs) ==
    Appended(LoadLoop(elements, 1, ctx, <<>>), doc, alldocs)

\* items[oname] = {...}: the last tuple of a name wins
DocItem(t) == [doc |-> t.doc, default |-> t.default,
               value |-> t.masked_value, source |-> t.source]
JsonItem(t) == [value |-> t.masked_value, source |-> t.source]

RECURSIVE DocItems(_, _)
DocItems(section, n) ==
    IF n = 0 THEN EmptyDict
    ELSE LET items == DocItems(section, n - 1)
         IN  [k \in DOMAIN items \cup {section[n].oname} |->
                 IF k = section[n].oname THEN DocItem(section[n]) ELSE items[k]]

RECURSIVE JsonItems(_, _)
JsonItems(section, n) ==
    IF n = 0 THEN EmptyDict
    ELSE LET items == JsonItems(section, n - 1)
         IN  [k \in DOMAIN items \cup {section[n].oname} |->
                 IF k = section[n].oname THEN JsonItem(section[n]) ELSE items[k]]

\* a json_render that keeps the first tuple of a name
RECURSIVE JsonItemsFirstWins(_, _)
JsonItemsFirstWins(section, n) ==
    IF n = 0 THEN EmptyDict
    ELSE LET items == JsonItemsFirstWins(section, n - 1)
         IN  [k \in DOMAIN items \cup {section[n].oname} |->
                 IF k \in DOMAIN items THEN items[k] ELSE JsonItem(section[n])]

\* the loop `for section, name in self._docs: ... rv[name] = items`: every
\* section name is a key, bound to the items of the last section of that name
SectionNames(alldocs) == {alldocs[i][2] : i \in 1..Len(alldocs)}
LastSection(alldocs, name) ==
    alldocs[CHOOSE i \in 1..Len(alldocs) :
                /\ alldocs[i][2] = name
                /\ \A j \in (i + 1)..Len(alldocs) : alldocs[j][2] # name][1]

\* ConfigManager.doc_render
doc_render(alldocs) ==
    [name \in SectionNames(alldocs) |->
        DocItems(LastSection(alldocs, name), Len(LastSection(alldocs, name)))]

json_render_first_wins(alldocs) ==
    [name \in SectionNames(alldocs) |->
        JsonItemsFirstWins(LastSection(alldocs, name), Len(LastSection(alldocs, name)))]

\* ConfigManager.json_render
json_render(alldocs) ==
    [name \in SectionNames(alldocs) |->
        JsonItems(LastSection(alldocs, name), Len(LastSection(alldocs, name)))]

-----------------------------------------------------------------------------
(* The inputs the model draws from.                                        *)

\* option and constant names
Names == {"X", "Y"}

\* what the environment, the local and the instance document hold for a key
EnvVal(k) == StrVal(<<"e", k>>)
LocalVal(k) == StrVal(<<"l", k>>)
InstVal(k) == IntVal(1)

EnvMaps(keys) == {DictOf([k \in S |-> EnvVal(k)]) : S \in SUBSET keys}
LocalMaps(keys) == {DictOf([k \in S |-> LocalVal(k)]) : S \in SUBSET keys}
InstMaps(keys) == {DictOf([k \in S |-> InstVal(k)]) : S \in SUBSET keys}

\* the keys the documents of the manager specification may override
ManagerKeys == {"X"}

\* the backing documents of the i-th source; its leaf is the number 10 + i
Leaf(i) == IntVal(10 + i)
Documents(i) ==
    { DictVal(EmptyDict),
      DictVal(<<"a">> :> Leaf(i)),
      DictVal(<<"a">> :> DictVal(<<"b">> :> Leaf(i))) }

\* keymaps: X is not provided, or is mapped to 'a' or to 'a:b'
KeyMaps == { EmptyDict, "X" :> <<"a">>, "X" :> <<"a", ":", "b">> }

SourcePath(i) == IF i = 1 THEN "s1.json" ELSE IF i = 2 THEN "s2.json" ELSE "s3.json"

SourcesAt(i) == { [path |-> SourcePath(i), keymap |-> km, source |-> d] :
                  km \in KeyMaps, d \in Documents(i) }

\* the chains of exactly n sources, the i-th drawn from SourcesAt(i)
RECURSIVE SourceLists(_)
SourceLists(n) ==
    IF n = 0 THEN {<<>>}
    ELSE {Append(l, src) : l \in SourceLists(n - 1), src \in SourcesAt(n)}

NoChain == [isNone |-> TRUE, path |-> "", sources |-> <<>>]
Chains == { [isNone |-> FALSE, path |-> "external_configs.yaml", sources |-> l] :
            l \in UNION {SourceLists(n) : n \in 0..MaxSources} }

\* the entries of a descriptor list at position i: the format tag, a
\* 'filetype' key or none, the keymap, and whether the file at path exists
Formats == {"json", "yaml"}
FileTypes == {"absent", "yaml"}
EntriesAt(i) ==
    { [format |-> f, filetype |-> ft, path |-> SourcePath(i), keymap |-> km,
       exists |-> e, document |-> DictVal(<<"a">> :> Leaf(i))] :
      f \in Formats, ft \in FileTypes, km \in KeyMaps, e \in BOOLEAN }
Descriptors ==
    UNION { {d \in [1..n -> UNION {EntriesAt(i) : i \in 1..n}] :
                \A i \in 1..n : d[i] \in EntriesAt(i)} : n \in 0..MaxSources }

\* default expressions
Lit(v) == [k |-> "lit", v |-> v, name |-> ""]
Ref(name) == [k |-> "ref", v |-> NoneVal, name |-> name]
Inc(name) == [k |-> "inc", v |-> NoneVal, name |-> name]
Empty == [k |-> "empty", v |-> NoneVal, name |-> ""]
Unset == [k |-> "unset", v |-> NoneVal, name |-> ""]

Defaults == {Lit(IntVal(7)), Ref("X"), Empty, Unset}

Element(name, kind, default, masked) ==
    [name |-> name, kind |-> kind, default |-> default, doc |-> "doc",
     parser |-> "None", masked |-> masked]

Options == {Element(n, "option", d, FALSE) : n \in Names, d \in Defaults}
\* constants named like the keys the documents and the chain hold
Constants == {Element("X", "constant", d, FALSE) : d \in {Lit(IntVal(7)), Ref("X")}}
\* the elements the modules of the manager specification load: an option X
\* with or without a default, masked or not; a constant X; a constant X
\* whose default is X + 1; an option and a constant Y whose default reads X
Elements ==
    {Element("X", "option", d, m) : d \in {Lit(IntVal(7)), Empty}, m \in BOOLEAN}
    \cup {Element("X", "constant", Lit(StrVal(<<"d">>)), FALSE)}
    \cup {Element("X", "constant", Inc("X"), FALSE)}
    \cup {Element("Y", k, Ref("X"), FALSE) : k \in {"option", "constant"}}

NoElement == Element("", "none", Empty, FALSE)
\* the outcome of a call: args are the elements handed to load_elements or
\* the descriptor list the chain is built from,
\* before the namespace when it was called, at the element it failed at
NoRes == [op |-> "none", el |-> NoElement, key |-> "", out |-> Return(NoneVal, "None"),
          args |-> <<>>, before |-> EmptyDict, at |-> 0]

\* strings of every length up to MaxStrLen, over ten distinct characters
Alphabet == <<"a", "b", "c", "d", "e", "f", "g", "h", "i", "j">>
Chars(len) == [i \in 1..len |-> Alphabet[((i - 1) % 10) + 1]]
MaskValues == {StrVal(Chars(len)) : len \in 0..MaxStrLen} \cup {IntVal(7), NoneVal}
MaskElements == {Element("X", "constant", Lit(v), m) : v \in MaskValues, m \in BOOLEAN}

\* the lists of 1..n elements
ElementListsOf(n) == [1..n -> Elements]
ElementLists(n) == UNION {ElementListsOf(k) : k \in 1..n}

DocNames == {"s1", "s2"}

\* module names
ModNames == {"A", "B", "C"}

-----------------------------------------------------------------------------
(* State after ConfigManager.__init__, and the operations.                 *)

InitManager ==
    /\ environment_overrides = NoneMap
    /\ local_config = NoneMap
    /\ instance_config = NoneMap
    /\ external_configs = NoChain
    /\ ns = EmptyDict
    /\ docs = <<>>
    /\ res = NoRes

\* the loader at rest: no module is discovered
InitNoModules ==
    /\ discovery = <<>>
    /\ depends = [m \in ModNames |-> {}]
    /\ excluded = {}
    /\ modules = <<>>
    /\ idx = 0
    /\ remaining_modules = <<>>
    /\ changed = TRUE
    /\ deadlocked = FALSE
    /\ modules_loaded = <<>>
    /\ errors = <<>>
    /\ load_exc = ""
    /\ pc = "done"

TheCtx == Ctx(environment_overrides, local_config, instance_config,
              external_configs, ns)

\* ConfigManager.load_config_files, run once by install_config: inst, local
\* and env are what the two documents and the environment hold; ext is the
\* chain built from the descriptor, NoChain when there is no descriptor
load_config_files(insts, locals, envs, exts) ==
    /\ environment_overrides.isNone
    /\ \E inst \in insts, local \in locals, env \in envs, ext \in exts :
        /\ instance_config' = inst
        /\ local_config' = local
        /\ environment_overrides' = env
        /\ external_configs' = IF ext.isNone THEN external_configs ELSE ext
    /\ res' = [NoRes EXCEPT !.op = "load_config_files"]
    /\ UNCHANGED <<ns, docs, inputVars, loaderVars>>

\* a read of element.raw_value, the element bound to the manager
ReadRawValue(el) ==
    /\ res' = [NoRes EXCEPT !.op = "raw_value", !.el = el, !.key = el.name,
                          !.out = RawValue(el, TheCtx)]
    /\ UNCHANGED <<mgrVars, inputVars, loaderVars>>

\* a read of element.value, the element bound to the manager
ReadValue(el) ==
    /\ res' = [NoRes EXCEPT !.op = "value", !.el = el, !.key = el.name,
                          !.out = Value(el, TheCtx)]
    /\ UNCHANGED <<mgrVars, inputVars, loaderVars>>

\* a call of manager.EXTERNAL_CONFIG.get(key)
CallExternalGet(key) ==
    /\ ~external_configs.isNone
    /\ res' = [NoRes EXCEPT !.op = "get", !.key = key,
                          !.out = ConfigExternalSources_get(external_configs, key)]
    /\ UNCHANGED <<mgrVars, inputVars, loaderVars>>

\* a read of element.masked_value
ReadMaskedValue(el) ==
    /\ res' = [NoRes EXCEPT !.op = "masked_value", !.el = el, !.key = el.name,
                          !.out = MaskedValue(el, TheCtx)]
    /\ UNCHANGED <<mgrVars, inputVars, loaderVars>>

\* the chain after self._external_configs = ConfigExternalSources(path)
\* ended as o: the attribute is not assigned when the constructor raises
Constructed(o) ==
    IF o.exc # "" THEN external_configs
    ELSE [isNone |-> FALSE, path |-> "external_configs.yaml", sources |-> o.sources]

ConstructedAs(o, descriptor) ==
    /\ external_configs' = Constructed(o)
    /\ res' = [NoRes EXCEPT !.op = "ConfigExternalSources",
                            !.out = IF o.exc = "" THEN Return(NoneVal, "None")
                                    ELSE Raise(o.exc, o.args, "None"),
                            !.args = descriptor]

\* ConfigExternalSources(path), the file at path holding the descriptor list
ConstructSources(descriptor) ==
    /\ ConstructedAs(load_external_sources(descriptor), descriptor)
    /\ UNCHANGED <<environment_overrides, local_config, instance_config,
                   ns, docs, inputVars, loaderVars>>

\* the number of documentation tuples in _docs
RECURSIVE Recorded(_)
Recorded(alldocs) ==
    IF alldocs = <<>> THEN 0
    ELSE Len(Head(alldocs)[1]) + Recorded(Tail(alldocs))

\* the state after a load_elements call that ended as l
Loaded(l, elements, doc) ==
    /\ ns' = l.ns
    /\ docs' = l.docs
    /\ res' = [op |-> "load_elements",
               el |-> IF l.exc = "" THEN NoElement ELSE elements[l.at],
               key |-> doc,
               out |-> IF l.exc = "" THEN Return(NoneVal, "None")
                       ELSE Raise(l.exc, l.args, "None"),
               args |-> elements, before |-> ns, at |-> l.at]

\* a call of manager.load_elements(elements, doc)
load_elements(elements, doc) ==
    /\ Recorded(docs) + Len(elements) <= MaxElements
    /\ Loaded(LoadElements(elements, doc, TheCtx, docs), elements, doc)
    /\ UNCHANGED <<environment_overrides, local_config, instance_config,
                   external_configs, inputVars, loaderVars>>

-----------------------------------------------------------------------------
(* The manager: configuration files, then load_elements calls.             *)

Init == InitManager /\ InitNoModules

\* start-up goes on: no call has raised.  An exception out of load_elements
\* leaves the module's load, _load_configs and the caller's start-up
Running == res.out.exc = ""

Next ==
    \/ /\ Running
       /\ load_config_files(InstMaps(ManagerKeys), LocalMaps(ManagerKeys),
                            EnvMaps(ManagerKeys), {NoChain})
    \/ /\ Running
       /\ \E elements \in ElementLists(MaxElements - Recorded(docs)), doc \in DocNames :
               load_elements(elements, doc)

Spec == Init /\ [][Next]_vars

(* Resolution: configuration files with an external chain, then reads of   *)
(* raw_value and calls of the chain's get.                                 *)

NextResolve ==
    \/ load_config_files(InstMaps(Names), LocalMaps(Names), EnvMaps(Names),
                         Chains \cup {NoChain})
    \/ \E el \in Options : ReadRawValue(el)
    \/ \E el \in Constants : ReadValue(el)
    \/ \E key \in Names : CallExternalGet(key)

SpecResolve == Init /\ [][NextResolve]_vars

(* Chain construction from descriptor lists: load_config_files constructs  *)
(* the chain once.                                                         *)

NextChain ==
    /\ Running /\ external_configs.isNone
    /\ \E descriptor \in Descriptors : ConstructSources(descriptor)

SpecChain == Init /\ [][NextChain]_vars

(* Masking: reads of masked_value of constants of every length.            *)

NextMask == \E el \in MaskElements : ReadMaskedValue(el)

SpecMask == Init /\ [][NextMask]_vars

-----------------------------------------------------------------------------
(* Dependency ordered module loading: ConfigManager._load_configs.         *)

Range(seq) == {seq[i] : i \in 1..Len(seq)}

\* what a module's load(manager) loads: one constant, under a section named
\* after the module; A and B publish X, C publishes Y
ModAttr(m) == IF m = "C" THEN "Y" ELSE "X"
ModVal(m) == IF m = "A" THEN IntVal(1) ELSE IF m = "B" THEN IntVal(2) ELSE IntVal(3)
ModuleElements(m) == <<Element(ModAttr(m), "constant", Lit(ModVal(m)), FALSE)>>

check_depends_ignored(deps, loaded) == TRUE

\* ConfigManager._check_depends
check_depends(deps, loaded) == \A m \in deps : m \in Range(loaded)

\* the loader's state as a record
LoaderState ==
    [modules |-> modules, idx |-> idx, remaining_modules |-> remaining_modules,
     changed |-> changed, deadlocked |-> deadlocked,
     modules_loaded |-> modules_loaded, errors |-> errors,
     load_exc |-> load_exc, pc |-> pc, ns |-> ns, docs |-> docs]

\* the state at the while loop of _load_configs, `order` the discovered list
StartLoad(order) ==
    [modules |-> order, idx |-> 0, remaining_modules |-> <<>>,
     changed |-> TRUE, deadlocked |-> FALSE,
     modules_loaded |-> <<>>, errors |-> <<>>,
     load_exc |-> "", pc |-> "while", ns |-> EmptyDict, docs |-> <<>>]

\* while len(modules) and not deadlocked
LoopGoesOn(s) == Len(s.modules) > 0 /\ ~s.deadlocked

\* a pass head that never sets deadlocked
EnterPassUnmarked(s) ==
    [s EXCEPT !.changed = FALSE, !.remaining_modules = <<>>, !.idx = 1, !.pc = "for"]

\* the head of a pass: deadlocked is set after a pass that changed nothing
EnterPass(s) ==
    [s EXCEPT !.deadlocked = IF ~s.changed THEN TRUE ELSE s.deadlocked,
              !.changed = FALSE,
              !.remaining_modules = <<>>,
              !.idx = 1,
              !.pc = "for"]

\* the loop condition is false: _load_configs returns
ExitLoop(s) == [s EXCEPT !.pc = "done"]

\* the for loop is over: modules = remaining_modules
EndPass(s) == [s EXCEPT !.modules = s.remaining_modules, !.pc = "while"]

\* an exclusion test that loads the module all the same
SkipLoads(s) ==
    [s EXCEPT !.modules_loaded = Append(s.modules_loaded, s.modules[s.idx]),
              !.changed = TRUE,
              !.idx = s.idx + 1]

\* if m_name in self._excluded: continue
Skip(s) == [s EXCEPT !.idx = s.idx + 1]

\* m.load(self) ended as l; then the module is appended to _modules_loaded
AfterLoad(s, m, l) ==
    IF l.exc # ""
    THEN [s EXCEPT !.ns = l.ns, !.docs = l.docs, !.load_exc = l.exc, !.pc = "raised"]
    ELSE [s EXCEPT !.ns = l.ns, !.docs = l.docs,
                   !.modules_loaded = Append(s.modules_loaded, m),
                   !.changed = TRUE,
                   !.idx = s.idx + 1]

\* the branch of a module whose dependencies are loaded
Load(s, ctx) ==
    AfterLoad(s, s.modules[s.idx],
              LoadElements(ModuleElements(s.modules[s.idx]), s.modules[s.idx],
                           [ctx EXCEPT !.ns = s.ns], s.docs))

LoggedAlways(s, m) == Append(s.errors, [m_name |-> m])

LoggedOnce(s, m) ==
    IF s.deadlocked /\ s.errors = <<>> THEN Append(s.errors, [m_name |-> m])
    ELSE s.errors

\* if deadlocked: logger.error("Failed loading {0}. Missing dependency.")
Logged(s, m) ==
    IF s.deadlocked THEN Append(s.errors, [m_name |-> m]) ELSE s.errors

DeferDropsModule(s) ==
    [s EXCEPT !.errors = Logged(s, s.modules[s.idx]), !.idx = s.idx + 1]

\* the branch of a module with a dependency that is not loaded
Defer(s) ==
    [s EXCEPT !.errors = Logged(s, s.modules[s.idx]),
              !.remaining_modules = Append(s.remaining_modules, s.modules[s.idx]),
              !.idx = s.idx + 1]

\* which branch the for loop takes at its position
AtEnd(s) == s.idx > Len(s.modules)
AtExcluded(s) == ~AtEnd(s) /\ s.modules[s.idx] \in excluded
AtLoadable(s) ==
    /\ ~AtEnd(s) /\ s.modules[s.idx] \notin excluded
    /\ check_depends(depends[s.modules[s.idx]], s.modules_loaded)
AtBlocked(s) ==
    /\ ~AtEnd(s) /\ s.modules[s.idx] \notin excluded
    /\ ~check_depends(depends[s.modules[s.idx]], s.modules_loaded)

\* one step of _load_configs
StepLoad(s, ctx) ==
    IF s.pc = "while"
    THEN IF LoopGoesOn(s) THEN EnterPass(s) ELSE ExitLoop(s)
    ELSE IF AtEnd(s) THEN EndPass(s)
    ELSE IF AtExcluded(s) THEN Skip(s)
    ELSE IF AtLoadable(s) THEN Load(s, ctx)
    ELSE Defer(s)

\* _load_configs run to its end
RECURSIVE RunLoad(_, _)
RunLoad(s, ctx) ==
    IF s.pc \in {"done", "raised"} THEN s ELSE RunLoad(StepLoad(s, ctx), ctx)

Assign(s) ==
    /\ modules' = s.modules
    /\ idx' = s.idx
    /\ remaining_modules' = s.remaining_modules
    /\ changed' = s.changed
    /\ deadlocked' = s.deadlocked
    /\ modules_loaded' = s.modules_loaded
    /\ errors' = s.errors
    /\ load_exc' = s.load_exc
    /\ pc' = s.pc
    /\ ns' = s.ns
    /\ docs' = s.docs
    /\ UNCHANGED <<environment_overrides, local_config, instance_config,
                   external_configs, res, inputVars>>

LoopEnter == pc = "while" /\ LoopGoesOn(LoaderState) /\ Assign(EnterPass(LoaderState))
LoopExit == pc = "while" /\ ~LoopGoesOn(LoaderState) /\ Assign(ExitLoop(LoaderState))
PassEnd == pc = "for" /\ AtEnd(LoaderState) /\ Assign(EndPass(LoaderState))
SkipExcluded == pc = "for" /\ AtExcluded(LoaderState) /\ Assign(Skip(LoaderState))
LoadModule == pc = "for" /\ AtLoadable(LoaderState) /\ Assign(Load(LoaderState, TheCtx))
DeferModule == pc = "for" /\ AtBlocked(LoaderState) /\ Assign(Defer(LoaderState))

\* the discovered lists: every order of every set of modules
Orders(S) == {o \in [1..Cardinality(S) -> S] : Range(o) = S}
Discoveries == UNION {Orders(S) : S \in SUBSET ModNames}
DependsSets == {D \in SUBSET ModNames : Cardinality(D) <= MaxDeps}
ExcludedSets == {E \in SUBSET ModNames : Cardinality(E) <= MaxExcluded}

\* ConfigManager.__init__ up to the while loop of _load_configs
InitLoad ==
    /\ InitManager
    /\ discovery \in Discoveries
    /\ depends \in {d \in [ModNames -> DependsSets] :
                        \A m \in ModNames \ Range(discovery) : d[m] = {}}
    /\ excluded \in ExcludedSets
    /\ modules = discovery
    /\ idx = 0
    /\ remaining_modules = <<>>
    /\ changed = TRUE
    /\ deadlocked = FALSE
    /\ modules_loaded = <<>>
    /\ errors = <<>>
    /\ load_exc = ""
    /\ pc = "while"

NextLoad ==
    \/ LoopEnter
    \/ LoopExit
    \/ PassEnd
    \/ SkipExcluded
    \/ LoadModule
    \/ DeferModule

SpecLoad == InitLoad /\ [][NextLoad]_vars

\* _load_configs runs on, no step of it waits for anything: weak fairness
\* of NextLoad, written out.  A step of NextLoad is enabled exactly while
\* _load_configs has not returned or raised
LoadEnded == pc \in {"done", "raised"}
SpecLoadFair ==
    InitLoad /\ [][NextLoad]_vars /\ ([]<>LoadEnded \/ []<><<NextLoad>>_vars)

-----------------------------------------------------------------------------
(* Properties of resolution, the external chain, masking and the renders.  *)

ConfigLoaded == ~environment_overrides.isNone

\* the path resolves in the document: every segment is a key of the dict
\* reached so far
RECURSIVE Resolves(_, _)
Resolves(node, crumbs) ==
    \/ crumbs = <<>>
    \/ /\ node.t = "dict"
       /\ Head(crumbs) \in DOMAIN node.d
       /\ Resolves(node.d[Head(crumbs)], Tail(crumbs))

\* a segment of the path is missing: a dict on the way lacks its segment
RECURSIVE MissingSegment(_, _)
MissingSegment(node, crumbs) ==
    /\ crumbs # <<>>
    /\ node.t = "dict"
    /\ \/ Head(crumbs) \notin DOMAIN node.d
       \/ MissingSegment(node.d[Head(crumbs)], Tail(crumbs))

RECURSIVE ValueAt(_, _)
ValueAt(node, crumbs) ==
    IF crumbs = <<>> THEN node ELSE ValueAt(node.d[Head(crumbs)], Tail(crumbs))

\* the source supplies the key: its keymap maps it to a path that resolves
Supplies(src, key) ==
    /\ key \in DOMAIN src.keymap
    /\ Resolves(src.source, Split(src.keymap[key]))

Suppliers(chain, key) ==
    IF chain.isNone THEN {}
    ELSE {i \in 1..Len(chain.sources) : Supplies(chain.sources[i], key)}

FirstOf(S) == CHOOSE i \in S : \A j \in S : i <= j

\* C1: when the option's name is a key of the environment override map,
\* raw_value returns the environment map's value with source
\* environment_override, whatever the other sources and the default hold.
C1_EnvironmentOverrideWins ==
    (res.op = "raw_value" /\ ConfigLoaded
        /\ res.el.name \in DOMAIN environment_overrides.m)
    => /\ res.out.exc = ""
       /\ res.out.value = environment_overrides.m[res.el.name]
       /\ res.out.source = "environment_override"

\* a read of an option that the environment, both documents and the chain
\* all supply
C1_Witness ==
    /\ res.op = "raw_value" /\ ConfigLoaded
    /\ res.el.name \in DOMAIN environment_overrides.m
    /\ res.el.name \in DOMAIN local_config.m
    /\ res.el.name \in DOMAIN instance_config.m
    /\ Suppliers(external_configs, res.el.name) # {}
    /\ res.el.default.k = "lit"
    /\ res.out.source = "environment_override"

\* the outcome of raw_value under the precedence environment > local >
\* instance > external chain > default, for an option with a literal default
PrecedenceOutcome(el) ==
    IF el.name \in DOMAIN environment_overrides.m
    THEN Return(environment_overrides.m[el.name], "environment_override")
    ELSE IF el.name \in DOMAIN local_config.m
    THEN Return(local_config.m[el.name], "local_override")
    ELSE IF el.name \in DOMAIN instance_config.m
    THEN Return(instance_config.m[el.name], "instance_config")
    ELSE IF Suppliers(external_configs, el.name) # {}
    THEN LET src == external_configs.sources[FirstOf(Suppliers(external_configs, el.name))]
         IN  Return(ValueAt(src.source, Split(src.keymap[el.name])), "external_config")
    ELSE Return(el.default.v, "default")

\* C2: raw_value returns the value and the source tag of the highest-ranked
\* step that supplies the key, in the order environment, local, instance,
\* external chain, default; the default when the chain fails for the key.
C2_StrictPrecedence ==
    (res.op = "raw_value" /\ ConfigLoaded /\ res.el.default.k = "lit")
    => res.out = PrecedenceOutcome(res.el)

\* the sources of the chain whose get returns for the key
Succeeding(chain, key) ==
    {i \in 1..Len(chain.sources) :
        ConfigExternalSource_get(chain.sources[i], key).exc = ""}

\* C3: the chain's get returns the result of the first source, in
\* construction order, whose get succeeds; when no keymap of the chain has
\* the key it raises ExternalConfigKeyError with the chain's path and the key.
C3_FirstSuccessInOrder ==
    res.op = "get" =>
        /\ Succeeding(external_configs, res.key) # {}
            => res.out = ConfigExternalSource_get(
                   external_configs.sources[FirstOf(Succeeding(external_configs, res.key))],
                   res.key)
        /\ (\A i \in 1..Len(external_configs.sources) :
                res.key \notin DOMAIN external_configs.sources[i].keymap)
            => /\ res.out.exc = "ExternalConfigKeyError"
               /\ res.out.args = <<external_configs.path, res.key>>

\* C4: a source whose keymap maps the key to a path with a segment missing
\* from its document fails with ConfigSourceDoesNotContainKey: it returns no
\* value and raises nothing else.
C4_MissingSegmentIsKeyNotFound ==
    res.op = "get" =>
        \A i \in 1..Len(external_configs.sources) :
            LET src == external_configs.sources[i]
            IN  (res.key \in DOMAIN src.keymap
                    /\ MissingSegment(src.source, Split(src.keymap[res.key])))
                => ConfigExternalSource_get(src, res.key).exc
                       = "ConfigSourceDoesNotContainKey"

\* C5: the masked value of a masked str of length L is its first
\* min(L \div 8, 8) characters, '...', and its last min(L \div 8, 8)
\* characters; an unmasked or non-str value is returned unchanged.
C5_MaskRevealsOnlyEnds ==
    res.op = "masked_value" =>
        LET v == res.el.default.v
            L == Len(v.s)
            m == Min(L \div 8, 8)
        IN  /\ res.out.exc = ""
            /\ res.out.value =
                  IF res.el.masked /\ v.t = "str"
                  THEN StrVal(SubSeq(v.s, 1, m) \o Ellipsis \o SubSeq(v.s, L - m + 1, L))
                  ELSE v

\* C10: the JSON-shaped render and the introspection render have the same
\* sections and the same option names in each section, and agree on the
\* value and the source of every option.
C10_RendersAgree ==
    LET d == doc_render(docs)
        j == json_render(docs)
    IN  /\ DOMAIN d = DOMAIN j
        /\ \A sec \in DOMAIN d :
              /\ DOMAIN d[sec] = DOMAIN j[sec]
              /\ \A o \in DOMAIN d[sec] :
                    /\ d[sec][o].value = j[sec][o].value
                    /\ d[sec][o].source = j[sec][o].source

\* two sections are recorded, and one section holds two tuples of one name
\* with different values
C10_Witness ==
    /\ Len(docs) >= 1
    /\ \E n \in 1..Len(docs) :
          \E a, b \in 1..Len(docs[n][1]) :
              /\ a < b
              /\ docs[n][1][a].oname = docs[n][1][b].oname
              /\ docs[n][1][a].masked_value # docs[n][1][b].masked_value
    /\ DOMAIN json_render(docs) # {}

-----------------------------------------------------------------------------
(* Properties of module loading.                                           *)

\* the modules loading considers: discovered and not excluded
Active == Range(discovery) \ excluded

\* the satisfiable modules: the least set closed under "all its depends are
\* in the set"; a module depending on a missing or excluded module, or on a
\* cycle, is left out
RECURSIVE SatisfiableFrom(_)
SatisfiableFrom(S) ==
    LET T == S \cup {m \in Active : depends[m] \subseteq S}
    IN  IF T = S THEN S ELSE SatisfiableFrom(T)
Satisfiable == SatisfiableFrom({})
Unsatisfiable == Active \ Satisfiable

\* the modules m depends on, directly or transitively
RECURSIVE DependsClosure(_)
DependsClosure(S) ==
    LET T == S \cup UNION {depends[m] : m \in S \cap ModNames}
    IN  IF T = S THEN S ELSE DependsClosure(T)
AllDepends(m) == DependsClosure(depends[m])

\* two satisfiable modules publish the same name and neither depends on the
\* other
UnorderedClash ==
    \E a, b \in Satisfiable :
        /\ a # b
        /\ ModAttr(a) = ModAttr(b)
        /\ a \notin AllDepends(b)
        /\ b \notin AllDepends(a)

\* _load_configs run on the discovery order p
Final(p) == RunLoad(StartLoad(p), TheCtx)

Unmet(m) == depends[m] \ Range(modules_loaded)

\* the names an error record reports: the arguments of its format string
Reported(e) == {e[f] : f \in DOMAIN e}

C9_LoadedInDependencyOrder ==
    /\ \A i \in 1..Len(modules_loaded) :
          depends[modules_loaded[i]] \subseteq {modules_loaded[j] : j \in 1..(i - 1)}
    /\ [i \in 1..Len(docs) |-> docs[i][2]] = modules_loaded
    /\ (/\ pc = "done"
        /\ discovery = <<"A", "B">>
        /\ depends["A"] = {"B"} /\ depends["B"] = {}
        /\ excluded = {})
       => modules_loaded = <<"B", "A">>

\* the scenario: A depends on B, discovered as [A, B], loading is over
C9_Witness ==
    /\ pc = "done"
    /\ discovery = <<"A", "B">>
    /\ depends["A"] = {"B"} /\ depends["B"] = {}
    /\ excluded = {}
    /\ modules_loaded = <<"B", "A">>

-----------------------------------------------------------------------------
(* Properties of required options, evaluation order and publishing.        *)

\* no step before the default supplies the name: the three maps lack it and
\* no source of the chain maps it to a path that resolves
NotSupplied(name) ==
    /\ ConfigLoaded
    /\ name \notin DOMAIN environment_overrides.m
    /\ name \notin DOMAIN local_config.m
    /\ name \notin DOMAIN instance_config.m
    /\ Suppliers(external_configs, name) = {}

\* C11: when neither the environment, the local or the instance document nor
\* the external chain supplies the option's name and its default expression
\* is empty or unset, raw_value returns no value: it fails with the error
\* raw_value reports and raises again for a required option that is not set
\* (the SyntaxError of its last except clause).
C11_RequiredOptionUnset ==
    (res.op = "raw_value" /\ NotSupplied(res.el.name)
        /\ res.el.default.k \in {"empty", "unset"})
    => res.out.exc = "SyntaxError"

\* the context of the load_elements call res reports: the maps as they are,
\* the namespace as it was when the call was made
CallCtx == Ctx(environment_overrides, local_config, instance_config,
               external_configs, res.before)

\* the namespace in which the i-th element of a call is evaluated: what was
\* published before the call, then the values of the elements before it, in
\* element order
NsStep(names, el, ctx) ==
    [k \in DOMAIN names \cup {el.name} |->
        IF k = el.name THEN Value(el, [ctx EXCEPT !.ns = names]).value
        ELSE names[k]]

RECURSIVE NsBefore(_, _, _)
NsBefore(elements, i, ctx) ==
    IF i = 1 THEN ctx.ns
    ELSE NsStep(NsBefore(elements, i - 1, ctx), elements[i - 1], ctx)

\* the call got as far as its i-th element
Reached(i) == res.at = 0 \/ i <= res.at

\* the value of the element is its default expression's
DefaultReached(el) == el.kind = "constant" \/ NotSupplied(el.name)

\* C12: default expressions are evaluated in the order of the load_elements
\* calls and in element order within a call: an expression that names an
\* element reads the value published last before it, by an earlier call or
\* by an earlier element of the same call; when the name is not published
\* yet, even if a later element publishes it, the call ends with NameError
\* at that element, with nothing more published and nothing recorded.
C12_EvaluatedInLoadOrder ==
    res.op = "load_elements" =>
        /\ res.at = 0 => ns = NsBefore(res.args, Len(res.args) + 1, CallCtx)
        /\ res.at > 0 => ns = NsBefore(res.args, res.at, CallCtx)
        /\ \A i \in 1..Len(res.args) :
              (/\ Reached(i)
               /\ DefaultReached(res.args[i])
               /\ res.args[i].default.k = "ref")
              => IF res.args[i].default.name \in DOMAIN NsBefore(res.args, i, CallCtx)
                 THEN /\ res.at # i
                      /\ res.at = 0 =>
                            docs[Len(docs)][1][i].masked_value
                                = NsBefore(res.args, i, CallCtx)[res.args[i].default.name]
                 ELSE /\ res.at = i
                      /\ res.out.exc = "NameError"
                      /\ res.out.args = <<res.args[i].default.name>>
                      /\ res.el = res.args[i]

\* a call whose second element reads the X its first element published, X
\* not published before the call
C12_Witness ==
    /\ res.op = "load_elements" /\ res.at = 0
    /\ Len(res.args) = 2
    /\ res.args[1].name = "X"
    /\ res.args[2].default = Ref("X")
    /\ "X" \notin DOMAIN res.before
    /\ ns["Y"] = ns["X"]

\* C13: a constant cannot be overridden: its value is the evaluation of its
\* default expression in the context and its source is hardcoded, whatever
\* the environment map, the local and the instance document and the external
\* chain hold under its name.
C13_ConstantNotOverridden ==
    (res.op = "value" /\ res.el.kind = "constant")
    => /\ res.out.source = "hardcoded"
       /\ res.out.exc = Eval(res.el.default, TheCtx).exc
       /\ res.out.value = Eval(res.el.default, TheCtx).value

\* a read of a constant whose name the environment, both documents and the
\* chain all supply
C13_Witness ==
    /\ res.op = "value" /\ res.el.kind = "constant"
    /\ ConfigLoaded
    /\ res.el.name \in DOMAIN environment_overrides.m
    /\ res.el.name \in DOMAIN local_config.m
    /\ res.el.name \in DOMAIN instance_config.m
    /\ Suppliers(external_configs, res.el.name) # {}
    /\ res.out = Return(IntVal(7), "hardcoded")

\* the positions of the elements of a name in a call, and the last of them
IndicesOf(elements, name) == {i \in 1..Len(elements) : elements[i].name = name}
LastOf(S) == CHOOSE i \in S : \A j \in S : j <= i

\* the value of the i-th element of the call res reports, when it was loaded
ValueWhenLoaded(i) ==
    Value(res.args[i], [CallCtx EXCEPT !.ns = NsBefore(res.args, i, CallCtx)])

\* C15: publishing is last-write-wins: after a load_elements call a name
\* holds the value computed for the element of that name loaded last, a name
\* the call did not load keeps what it held, and a call fails only when the
\* value of one of its elements fails: never because a name is published
\* already.
C15_LastWriteWins ==
    res.op = "load_elements" =>
        /\ res.at = 0 =>
              /\ DOMAIN ns = DOMAIN res.before
                                \cup {res.args[i].name : i \in 1..Len(res.args)}
              /\ \A name \in DOMAIN ns :
                    IF IndicesOf(res.args, name) = {}
                    THEN ns[name] = res.before[name]
                    ELSE ns[name]
                           = ValueWhenLoaded(LastOf(IndicesOf(res.args, name))).value
        /\ res.at > 0 =>
              /\ ValueWhenLoaded(res.at).exc # ""
              /\ res.out.exc = ValueWhenLoaded(res.at).exc

\* a call that gave X, published by an earlier call, another value
C15_Witness ==
    /\ res.op = "load_elements" /\ res.at = 0
    /\ Len(docs) = 2
    /\ "X" \in DOMAIN res.before
    /\ IndicesOf(res.args, "X") # {}
    /\ ns["X"] # res.before["X"]

\* the documentation tuple recorded for the i-th element of the call
RecordedTuple(i) == docs[Len(docs)][1][i]

\* C17: for every element a load_elements call loaded that is not masked
\* and whose value is representable, the value recorded in its documentation
\* tuple is the value the call published for it, with that value's source;
\* the render views return the recorded values.
C17_RecordedIsPublished ==
    (res.op = "load_elements" /\ res.at = 0) =>
        /\ \A i \in 1..Len(res.args) :
              (~res.args[i].masked /\ IsJsonable(ValueWhenLoaded(i).value))
              => /\ RecordedTuple(i).masked_value = ValueWhenLoaded(i).value
                 /\ RecordedTuple(i).source = ValueWhenLoaded(i).source
        /\ \A name \in {res.args[i].name : i \in 1..Len(res.args)} :
              /\ json_render(docs)[res.key][name].value
                    = RecordedTuple(LastOf(IndicesOf(res.args, name))).masked_value
              /\ doc_render(docs)[res.key][name].value
                    = RecordedTuple(LastOf(IndicesOf(res.args, name))).masked_value

\* the options among the elements of a call
OptionsOf(elements) == {i \in 1..Len(elements) : elements[i].kind = "option"}

\* C19: while the manager's override maps are unset (load_config_files has
\* not run), loading an option yields no value: the call ends at its first
\* option, or before, with the TypeError of subscripting None, which is not
\* taken for 'try next'; the default expression is not evaluated, nothing
\* is published for the option and nothing is recorded.
C19_UnsetMapsYieldNoValue ==
    (/\ res.op = "load_elements"
     /\ environment_overrides.isNone
     /\ OptionsOf(res.args) # {})
    => /\ res.at > 0
       /\ res.at <= FirstOf(OptionsOf(res.args))
       /\ res.at = FirstOf(OptionsOf(res.args)) =>
             /\ res.out.exc = "TypeError"
             /\ res.out.args = <<"NoneType">>
             /\ res.el = res.args[res.at]
       /\ DOMAIN ns = DOMAIN res.before
                         \cup {res.args[i].name : i \in 1..(res.at - 1)}
       /\ \A n \in 1..Len(docs) : \A i \in 1..Len(docs[n][1]) :
             docs[n][1][i].source = "hardcoded"

\* before load_config_files, a call loaded the constant X and ended at the
\* option Y, whose default reads X: Y is not published
C19_Witness ==
    /\ res.op = "load_elements"
    /\ environment_overrides.isNone /\ local_config.isNone /\ instance_config.isNone
    /\ Len(res.args) = 2
    /\ res.args[1].kind = "constant"
    /\ res.args[2] = Element("Y", "option", Ref("X"), FALSE)
    /\ res.at = 2
    /\ "X" \in DOMAIN ns /\ "Y" \notin DOMAIN ns

-----------------------------------------------------------------------------
(* Properties of the loading loop.                                         *)

\* at the while test after a pass that loaded nothing, not yet marked
AfterIdlePass == pc = "while" /\ ~changed /\ ~deadlocked

\* C16 as stated: loading terminates; after a pass that loads no module
\* exactly one further pass is made, no module is loaded in it, and the loop
\* then stops.
C16_OneFurtherPass ==
    /\ <>(pc = "done")
    /\ [][AfterIdlePass => (pc' = "for" /\ deadlocked')]_vars
    /\ [][deadlocked => modules_loaded' = modules_loaded]_vars
    /\ [][(pc = "while" /\ deadlocked) => pc' = "done"]_vars

\* C16 amended: loading terminates; after the first pass that loads no
\* module, one further pass is made when modules remain on the worklist, no
\* module is loaded in it and the loop then stops; when no module remains
\* the loop stops at once.
C16_OneFurtherPassIfRemaining ==
    /\ <>(pc = "done")
    /\ [][(AfterIdlePass /\ modules # <<>>) => (pc' = "for" /\ deadlocked')]_vars
    /\ [][(AfterIdlePass /\ modules = <<>>) => (pc' = "done" /\ ~deadlocked')]_vars
    /\ [][deadlocked => modules_loaded' = modules_loaded]_vars
    /\ [][(pc = "while" /\ deadlocked) => pc' = "done"]_vars

\* loading ended after a further pass over two modules that depend on each
\* other, a third module loaded before
C16_Witness ==
    /\ pc = "done" /\ deadlocked /\ ~changed
    /\ Len(modules) = 2
    /\ depends[modules[1]] = {modules[2]}
    /\ depends[modules[2]] = {modules[1]}
    /\ Len(modules_loaded) = 1

\* C18: a module in the exclusion set is never loaded: it is never in the
\* loaded list and no section is recorded for it, in any state of loading
\* and whatever the discovery order and the dependencies.
C18_ExcludedNeverLoaded ==
    /\ \A i \in 1..Len(modules_loaded) : modules_loaded[i] \notin excluded
    /\ \A i \in 1..Len(docs) : docs[i][2] \notin excluded
    /\ \A name \in DOMAIN ns : \E m \in Range(modules_loaded) \ excluded :
            ModAttr(m) = name

\* loading ended with the excluded module discovered first, a module that
\* depends on it left unloaded and another module loaded
C18_Witness ==
    /\ pc = "done"
    /\ excluded # {}
    /\ discovery # <<>> /\ discovery[1] \in excluded
    /\ \E m \in Range(modules) : depends[m] \cap excluded # {}
    /\ modules_loaded # <<>>

-----------------------------------------------------------------------------
(* Properties of chain construction.                                       *)

\* the entries of the descriptor list with an unsupported format tag
Unsupported(descriptor) ==
    {i \in 1..Len(descriptor) : descriptor[i].format # "json"}

\* the sources of the entries whose file exists, in descriptor order
RECURSIVE ExistingSources(_)
ExistingSources(descriptor) ==
    IF descriptor = <<>> THEN <<>>
    ELSE IF Head(descriptor).exists
    THEN <<JSONSource(Head(descriptor))>> \o ExistingSources(Tail(descriptor))
    ELSE ExistingSources(Tail(descriptor))

\* C14: constructing a chain from a descriptor list yields, in descriptor
\* order, exactly the sources of the entries whose file exists, unless an
\* entry carries an unsupported format tag: then construction fails with
\* ExternalConfigFormatError carrying that entry's path and tag.
C14_ChainConstruction ==
    res.op = "ConfigExternalSources" =>
        IF Unsupported(res.args) = {}
        THEN /\ res.out.exc = ""
             /\ external_configs.sources = ExistingSources(res.args)
        ELSE /\ res.out.exc = "ExternalConfigFormatError"
             /\ \E i \in Unsupported(res.args) :
                   res.out.args = <<res.args[i].path, res.args[i].format>>

====
